---- MODULE Spec2Model ----
(***************************************************************************)
(* LotteryToken (src/src/lib.rs): a Stylus contract that asks the Supra    *)
(* VRF router for randomness in mint_to and, in the router's callback      *)
(* mint_random_amount, mints a random amount of an ERC-20 token to the     *)
(* address registered for the nonce.                                       *)
(*                                                                         *)
(* One action models one whole transaction on the contract.  `call` holds  *)
(* what the last transaction was given, what it returned and the ordered   *)
(* trace of its effects (external calls, storage writes, logs).            *)
(***************************************************************************)
EXTENDS Integers, Sequences, FiniteSets, TLC

\* ------------------------------------------------------------------ bounds
\* Nonces the router may return are 0..MaxNonce.
MaxNonce == 1
\* Addresses are 0..MaxAddr; 0 is Address::ZERO.
MaxAddr == 2

\* ------------------------------------------------------- U256 arithmetic
\* A U256 is NumLimbs little-endian limbs of 16 bits: 256 bits in all.
LimbBase == 2^16
NumLimbs == 256 \div 16
Limbs == 1..NumLimbs

\* The values of U256.
U256 == [Limbs -> 0..(LimbBase - 1)]

ZERO == [i \in Limbs |-> 0]
\* U256::MAX = 2^256 - 1
MAX == [i \in Limbs |-> LimbBase - 1]

\* U256::from(n) for a small machine integer n (n < 2^31).
U256_from(n) ==
  [i \in Limbs |-> IF i = 1 THEN n % LimbBase
                   ELSE IF i = 2 THEN (n \div LimbBase) % LimbBase
                   ELSE 0]

\* Whether a + b + c carries into limb i (i = NumLimbs + 1: out of the top
\* limb), c being the carry into limb 1: some limb below i generates a carry
\* and every limb between propagates it.
carry_into(a, b, c, i) ==
  \/ /\ c = 1
     /\ \A k \in 1..(i - 1) : a[k] + b[k] >= LimbBase - 1
  \/ \E j \in 1..(i - 1) :
       /\ a[j] + b[j] >= LimbBase
       /\ \A k \in (j + 1)..(i - 1) : a[k] + b[k] >= LimbBase - 1

\* a + b + c modulo 2^256 and whether it wrapped, for a carry in c of 0 or 1.
adc(a, b, c) ==
  [val |-> [i \in Limbs |->
              (a[i] + b[i] + (IF carry_into(a, b, c, i) THEN 1 ELSE 0)) % LimbBase],
   overflow |-> carry_into(a, b, c, NumLimbs + 1)]

\* Uint::overflowing_add
overflowing_add(a, b) == adc(a, b, 0)

\* The `+` of U256 (wrapping_add).
wrapping_add(a, b) == overflowing_add(a, b).val

\* Whether a - b borrows from limb i.
borrow_from(a, b, i) ==
  \E j \in 1..(i - 1) :
    /\ a[j] < b[j]
    /\ \A k \in (j + 1)..(i - 1) : a[k] <= b[k]

\* The `-` of U256 (wrapping_sub).
wrapping_sub(a, b) ==
  [i \in Limbs |->
     (a[i] - b[i] - (IF borrow_from(a, b, i) THEN 1 ELSE 0) + LimbBase) % LimbBase]

\* a >= b: equal, or greater at the most significant limb where they differ.
geq(a, b) ==
  \/ a = b
  \/ \E i \in Limbs : a[i] > b[i] /\ \A k \in (i + 1)..NumLimbs : a[k] = b[k]

\* Bit k (0 = least significant) of a.
bit(a, k) == (a[(k \div 16) + 1] \div 2^(k % 16)) % 2

\* One step of binary long division: acc < m becomes (2*acc + b) mod m.
rem_step(acc, m, b) ==
  LET t == adc(acc, acc, b)
  IN  IF t.overflow \/ geq(t.val, m) THEN wrapping_sub(t.val, m) ELSE t.val

\* Binary long division through the n bits lo+n-1 .. lo of a, most significant
\* first, continuing from the remainder acc of the bits above them: the upper
\* half of the bits, then the lower half.
rem_bits[a \in U256, m \in U256, acc \in U256, lo \in Nat, n \in Nat] ==
  IF n = 1 THEN rem_step(acc, m, bit(a, lo))
  ELSE LET h == n \div 2
       IN  rem_bits[a, m, rem_bits[a, m, acc, lo + h, n - h], lo, h]

\* The `%` of U256, for m > 0.
rem(a, m) == rem_bits[a, m, ZERO, 0, 16 * NumLimbs]

\* a * k + c for small k and c (k, c <= 1000).
RECURSIVE mul_small_from(_, _, _, _)
mul_small_from(a, k, i, c) ==
  IF i > NumLimbs THEN <<>>
  ELSE LET s == a[i] * k + c
       IN  <<s % LimbBase>> \o mul_small_from(a, k, i + 1, s \div LimbBase)

\* The U256 written by a decimal literal given as its groups of three digits,
\* most significant first (1_000_000 is <<1, 0, 0>>): acc is the value of the
\* groups before the i-th.
from_groups[gs \in Seq(Nat), i \in Nat, acc \in U256] ==
  IF i > Len(gs) THEN acc
  ELSE from_groups[gs, i + 1, mul_small_from(acc, 1000, 1, gs[i])]

FromDecimal(gs) == from_groups[gs, 1, ZERO]

\* ------------------------------------------------------------ the inputs
Nonces == 0..MaxNonce
Addresses == 0..MaxAddr
\* Address::ZERO, what StorageMap::get returns for a key never written.
ZeroAddress == 0
\* No nonce: the router's call failed.
NoNonce == 0 - 1
\* No address: no mint was made.
NoAddress == 0 - 1

\* 1_000_000_000_000_000_000_000_u128, the literal of mint_range.
MintRangeDecimal == <<1, 0, 0, 0, 0, 0, 0, 0>>
\* 10^21 - 1
MintRangeLessOneDecimal == <<999, 999, 999, 999, 999, 999, 999>>

\* The random values the router delivers: 0, 10^21 - 1, 10^21 and 2^256 - 1.
RandomValues ==
  {ZERO, FromDecimal(MintRangeLessOneDecimal), FromDecimal(MintRangeDecimal), MAX}
\* The Vec<U256> values of rng_list: empty, one value, and two values whose
\* first differs from the second.
RngLists == {<<>>} \cup {<<r>> : r \in RandomValues} \cup {<<ZERO, MAX>>}

\* The constructor's arguments <<rng_token, subscription_manager, supra_router>>:
\* the router has the token's address in one deployment and the subscription
\* manager's in the other, so each pair of fields differs in one of them.
Deployments == {<<1, 2, 2>>, <<1, 2, 1>>}

\* What generateRequest answers: a revert, or a nonce.
RouterReplies ==
  {[ok |-> FALSE, nonce |-> NoNonce]} \cup {[ok |-> TRUE, nonce |-> n] : n \in Nonces}

\* ------------------------------------------------------------- the state
VARIABLES
  rng_token,             \* StorageAddress
  subscription_manager,  \* StorageAddress
  supra_router,          \* StorageAddress
  mint_address,          \* StorageMap<U256, StorageAddress>
  ctor,                  \* history: the constructor's arguments
  requested,             \* history: the nonces a successful mint_to obtained
  call                   \* the last transaction: inputs, result, effects, and
                         \* what the transaction before it minted (prior)

vars == <<rng_token, subscription_manager, supra_router, mint_address,
          ctor, requested, call>>

\* The contract's storage as one value.
Self ==
  [rng_token |-> rng_token, subscription_manager |-> subscription_manager,
   supra_router |-> supra_router, mint_address |-> mint_address]

\* ------------------------------------------------------------ the effects
\* One effect of a transaction, in the order the code produces them.
Effect(kind, target, function_sig, rng_count, num_confirmations, account, nonce, value, ok) ==
  [kind |-> kind, target |-> target, function_sig |-> function_sig,
   rng_count |-> rng_count, num_confirmations |-> num_confirmations,
   account |-> account, nonce |-> nonce, value |-> value, ok |-> ok]

\* router.generate_request(function_sig, rng_count, num_confirmations, client_wallet_address)
GenerateRequestCall(router, function_sig, rng_count, num_confirmations, client, reply) ==
  Effect("generateRequest", router, function_sig, rng_count, num_confirmations,
         client, reply.nonce, ZERO, reply.ok)

\* rng_token.mint(account, value)
MintCall(token, account, value, ok) ==
  Effect("mint", token, "", 0, ZERO, account, NoNonce, value, ok)

\* self.mint_address.setter(nonce).set(to)
StorageWrite(nonce, to) ==
  Effect("sstore", ZeroAddress, "", 0, ZERO, to, nonce, ZERO, TRUE)

\* log(MintRequested { nonce, to })
MintRequested(nonce, to) ==
  Effect("MintRequested", ZeroAddress, "", 0, ZERO, to, nonce, ZERO, TRUE)

\* log(Minted { nonce, to, amount })
Minted(nonce, to, amount) ==
  Effect("Minted", ZeroAddress, "", 0, ZERO, to, nonce, amount, TRUE)

\* ---------------------------------------------------------- the handlers
\* _init with the last two stores exchanged.
_init_swapped(token, manager, router) ==
  [rng_token |-> token, subscription_manager |-> router, supra_router |-> manager,
   mint_address |-> [n \in Nonces |-> ZeroAddress]]

\* LotteryToken::_init
_init(token, manager, router) ==
  [rng_token |-> token, subscription_manager |-> manager, supra_router |-> router,
   mint_address |-> [n \in Nonces |-> ZeroAddress]]

\* The check the missing caller test would make: everyone passes.
only_supra_router_absent(msg_sender, router) == TRUE

\* self.vm().msg_sender() != self.supra_router.get() rejects the caller.
only_supra_router(msg_sender, router) == msg_sender = router

\* U256::from(1000000000000000000000_u128)
mint_range == FromDecimal(MintRangeDecimal)

\* random_num % mint_range, without the + 1.
mint_amount_no_offset(random_num) == rem(random_num, mint_range)

\* (random_num % mint_range) + U256::from(1)
mint_amount(random_num) == wrapping_add(rem(random_num, mint_range), U256_from(1))

\* Whether the + of mint_amount wraps around 2^256, for each value the router
\* delivers.
AmountWraps ==
  [r \in RandomValues |-> overflowing_add(rem(r, mint_range), U256_from(1)).overflow]

\* mint_amount of each value the router delivers (computed once).
MintAmounts == [r \in RandomValues |-> mint_amount(r)]

\* A setter that keeps the entry a key already has.
registry_put_if_absent(map, nonce, to) ==
  IF map[nonce] = ZeroAddress THEN [map EXCEPT ![nonce] = to] ELSE map

\* A setter that ignores its key: every slot of the map is written.
registry_put_all(map, nonce, to) == [n \in DOMAIN map |-> to]

\* self.mint_address.setter(nonce).set(to)
registry_put(map, nonce, to) == [map EXCEPT ![nonce] = to]

\* A getter that reads slot 0 whatever the nonce.
registry_get_first(map, nonce) == map[0]

\* self.mint_address.get(nonce)
registry_get(map, nonce) == map[nonce]

\* _request_randomness calling the subscription manager's address as router.
_request_randomness_to_manager(self, reply) ==
  LET request == GenerateRequestCall(self.subscription_manager,
                   "mintRandomAmount(uint256,uint256[])", 1, U256_from(1),
                   self.subscription_manager, reply)
  IN  IF reply.ok
      THEN [ok |-> TRUE, nonce |-> reply.nonce, trace |-> <<request>>]
      ELSE [ok |-> FALSE, nonce |-> NoNonce, trace |-> <<request>>]

\* _request_randomness passing the router's address as client_wallet_address.
_request_randomness_wrong_client(self, reply) ==
  LET request == GenerateRequestCall(self.supra_router,
                   "mintRandomAmount(uint256,uint256[])", 1, U256_from(1),
                   self.supra_router, reply)
  IN  IF reply.ok
      THEN [ok |-> TRUE, nonce |-> reply.nonce, trace |-> <<request>>]
      ELSE [ok |-> FALSE, nonce |-> NoNonce, trace |-> <<request>>]

\* _request_randomness with unwrap_or_default: a failed call yields nonce 0.
_request_randomness_default(self, reply) ==
  LET request == GenerateRequestCall(self.supra_router,
                   "mintRandomAmount(uint256,uint256[])", 1, U256_from(1),
                   self.subscription_manager, reply)
  IN  [ok |-> TRUE, nonce |-> IF reply.ok THEN reply.nonce ELSE 0, trace |-> <<request>>]

\* LotteryToken::_request_randomness; reply is the router's answer.
_request_randomness(self, reply) ==
  LET subscription_manager_ == self.subscription_manager
      supra_router_address == self.supra_router
      request == GenerateRequestCall(supra_router_address,
                   "mintRandomAmount(uint256,uint256[])", 1, U256_from(1),
                   subscription_manager_, reply)
  IN  IF reply.ok
      THEN [ok |-> TRUE, nonce |-> reply.nonce, trace |-> <<request>>]
      ELSE [ok |-> FALSE, nonce |-> NoNonce, trace |-> <<request>>]

\* _mint_to without its log.
_mint_to_silent(self, to, reply) ==
  LET r == _request_randomness(self, reply)
  IN  IF ~r.ok
      THEN [result |-> "RandomnessRequestFailed", self |-> self, trace |-> r.trace]
      ELSE [result |-> "Ok",
            self |-> [self EXCEPT !.mint_address = registry_put(@, r.nonce, to)],
            trace |-> r.trace \o <<StorageWrite(r.nonce, to)>>]

\* LotteryToken::_mint_to
_mint_to(self, to, reply) ==
  LET r == _request_randomness(self, reply)
  IN  IF ~r.ok
      THEN [result |-> "RandomnessRequestFailed", self |-> self, trace |-> r.trace]
      ELSE [result |-> "Ok",
            self |-> [self EXCEPT !.mint_address = registry_put(@, r.nonce, to)],
            trace |-> r.trace \o <<StorageWrite(r.nonce, to), MintRequested(r.nonce, to)>>]

\* The end of _mint_random_amount with the nonce's entry removed once its mint
\* succeeded.
mint_and_log_consuming(self, nonce, receiver, amount, mint_ok) ==
  LET mint_request == MintCall(self.rng_token, receiver, amount, mint_ok)
  IN  IF ~mint_ok
      THEN [result |-> "MintFailed", self |-> self, trace |-> <<mint_request>>]
      ELSE [result |-> "Ok",
            self |-> [self EXCEPT !.mint_address = [@ EXCEPT ![nonce] = ZeroAddress]],
            trace |-> <<mint_request, Minted(nonce, receiver, amount)>>]

\* The end of _mint_random_amount with the Minted log written before the call.
mint_and_log_early(self, nonce, receiver, amount, mint_ok) ==
  LET mint_request == MintCall(self.rng_token, receiver, amount, mint_ok)
  IN  IF ~mint_ok
      THEN [result |-> "MintFailed", self |-> self,
            trace |-> <<Minted(nonce, receiver, amount), mint_request>>]
      ELSE [result |-> "Ok", self |-> self,
            trace |-> <<Minted(nonce, receiver, amount), mint_request>>]

\* The mint whose result is dropped (let _ = rng_token.mint(..)).
mint_and_log_unchecked(self, nonce, receiver, amount, mint_ok) ==
  [result |-> "Ok", self |-> self,
   trace |-> <<MintCall(self.rng_token, receiver, amount, mint_ok),
               Minted(nonce, receiver, amount)>>]

\* The end of _mint_random_amount: the call of the token's mint, the test of
\* its result and the Minted log.
mint_and_log(self, nonce, receiver, amount, mint_ok) ==
  LET mint_request == MintCall(self.rng_token, receiver, amount, mint_ok)
  IN  IF ~mint_ok
      THEN [result |-> "MintFailed", self |-> self, trace |-> <<mint_request>>]
      ELSE [result |-> "Ok", self |-> self,
            trace |-> <<mint_request, Minted(nonce, receiver, amount)>>]

\* _mint_random_amount taking the entry out of the registry as it reads it.
_mint_random_amount_taking(self, msg_sender, nonce, rng_list, mint_ok) ==
  IF ~only_supra_router(msg_sender, self.supra_router)
  THEN [result |-> "OnlySupraRouter", self |-> self, trace |-> <<>>]
  ELSE
    LET receiver == registry_get(self.mint_address, nonce)
        taken == [self EXCEPT !.mint_address = registry_put(@, nonce, ZeroAddress)]
    IN  IF Len(rng_list) = 0
        THEN [result |-> "Panic", self |-> taken, trace |-> <<>>]
        ELSE mint_and_log(taken, nonce, receiver, MintAmounts[rng_list[1]], mint_ok)

\* _mint_random_amount refusing a nonce whose entry is Address::ZERO.
_mint_random_amount_checked(self, msg_sender, nonce, rng_list, mint_ok) ==
  IF ~only_supra_router(msg_sender, self.supra_router)
  THEN [result |-> "OnlySupraRouter", self |-> self, trace |-> <<>>]
  ELSE
    LET receiver == registry_get(self.mint_address, nonce)
    IN  IF receiver = ZeroAddress
        THEN [result |-> "MintFailed", self |-> self, trace |-> <<>>]
        ELSE IF Len(rng_list) = 0
        THEN [result |-> "Panic", self |-> self, trace |-> <<>>]
        ELSE mint_and_log(self, nonce, receiver, MintAmounts[rng_list[1]], mint_ok)

\* LotteryToken::_mint_random_amount; mint_ok is whether the token's mint succeeds.
_mint_random_amount(self, msg_sender, nonce, rng_list, mint_ok) ==
  IF ~only_supra_router(msg_sender, self.supra_router)
  THEN [result |-> "OnlySupraRouter", self |-> self, trace |-> <<>>]
  ELSE
    LET receiver == registry_get(self.mint_address, nonce)
    IN  IF Len(rng_list) = 0
        \* rng_list[0] is out of bounds: the index panics and the call reverts
        \* with no error of the contract's.
        THEN [result |-> "Panic", self |-> self, trace |-> <<>>]
        ELSE mint_and_log(self, nonce, receiver, MintAmounts[rng_list[1]], mint_ok)

\* What a transaction leaves in storage: an Err return or a panic reverts it.
Committed(out, self) == IF out.result = "Ok" THEN out.self ELSE self

\* --------------------------------------------------------- the transitions
\* constructor(rng_token, subscription_manager, supra_router)
Init ==
  \E d \in Deployments :
    LET self == _init(d[1], d[2], d[3])
    IN  /\ rng_token = self.rng_token
        /\ subscription_manager = self.subscription_manager
        /\ supra_router = self.supra_router
        /\ mint_address = self.mint_address
        /\ ctor = [rng_token |-> d[1], subscription_manager |-> d[2],
                   supra_router |-> d[3]]
        /\ requested = {}
        /\ call = [op |-> "constructor", msg_sender |-> ZeroAddress, to |-> ZeroAddress,
                   nonce |-> NoNonce, rng_list |-> <<>>, result |-> "Ok",
                   trace |-> <<>>, pre |-> self.mint_address, prior |-> NoAddress]

\* The nonces the successful generateRequest calls of a trace returned.
Obtained(trace) ==
  {trace[i].nonce : i \in {j \in 1..Len(trace) :
                             trace[j].kind = "generateRequest" /\ trace[j].ok}}

\* The recipient of the mint call of the last transaction when that was a
\* fulfillment of nonce that returned Ok, NoAddress otherwise.
Preceding(nonce) ==
  IF call.op = "mint_random_amount" /\ call.result = "Ok" /\ call.nonce = nonce
  THEN call.trace[1].account
  ELSE NoAddress

\* Storage after a transaction whose handler returned out.
Store(out) ==
  LET self == Committed(out, Self)
  IN  /\ rng_token' = self.rng_token
      /\ subscription_manager' = self.subscription_manager
      /\ supra_router' = self.supra_router
      /\ mint_address' = self.mint_address

\* pub fn mint_to(to)
mint_to ==
  \E to \in Addresses, reply \in RouterReplies :
    LET out == _mint_to(Self, to, reply)
    IN  /\ Store(out)
        /\ requested' = requested \cup Obtained(out.trace)
        /\ call' = [op |-> "mint_to", msg_sender |-> ZeroAddress, to |-> to,
                    nonce |-> NoNonce, rng_list |-> <<>>, result |-> out.result,
                    trace |-> out.trace, pre |-> mint_address, prior |-> NoAddress]
        /\ UNCHANGED ctor

\* pub fn mint_random_amount(nonce, rng_list)
mint_random_amount ==
  \E msg_sender \in Addresses, nonce \in Nonces, rng_list \in RngLists,
     mint_ok \in BOOLEAN :
    LET out == _mint_random_amount(Self, msg_sender, nonce, rng_list, mint_ok)
    IN  /\ Store(out)
        /\ call' = [op |-> "mint_random_amount", msg_sender |-> msg_sender,
                    to |-> ZeroAddress, nonce |-> nonce, rng_list |-> rng_list,
                    result |-> out.result, trace |-> out.trace, pre |-> mint_address,
                    prior |-> Preceding(nonce)]
        /\ UNCHANGED <<ctor, requested>>

Next == mint_to \/ mint_random_amount

Spec == Init /\ [][Next]_vars

\* ------------------------------------------------------------ properties
\* The effects of the last transaction that are calls of the token's mint, and
\* its logs of one event.
MintCalls == SelectSeq(call.trace, LAMBDA e : e.kind = "mint")
Logs(event) == SelectSeq(call.trace, LAMBDA e : e.kind = event)

\* The last transaction is a fulfillment; its caller is, or is not, the router
\* the contract was constructed with.
Fulfillment == call.op = "mint_random_amount"
ByRouter == Fulfillment /\ call.msg_sender = ctor.supra_router
NotByRouter == Fulfillment /\ call.msg_sender # ctor.supra_router

\* The last transaction is a mint_to whose generateRequest call succeeded, or
\* failed.
RequestAnswered ==
  /\ call.op = "mint_to"
  /\ Len(call.trace) >= 1
  /\ call.trace[1].kind = "generateRequest"
  /\ call.trace[1].ok
RequestFailed ==
  /\ call.op = "mint_to"
  /\ Len(call.trace) >= 1
  /\ call.trace[1].kind = "generateRequest"
  /\ ~call.trace[1].ok

\* 10^21, and (r mod 10^21) + 1 for the values r the router delivers, from
\* their decimal digits: the last 21 digits of r, plus one.
TenToThe21 == FromDecimal(<<1, 0, 0, 0, 0, 0, 0, 0>>)
KnownAmounts ==
  [r \in RandomValues |->
     CASE r = ZERO -> FromDecimal(<<1>>)
       [] r = FromDecimal(<<999, 999, 999, 999, 999, 999, 999>>) -> TenToThe21
       [] r = TenToThe21 -> FromDecimal(<<1>>)
       \* 2^256 - 1 = 115792089237316195423570985008687907853269984665640564039457584007913129639935
       [] r = MAX -> FromDecimal(<<457, 584, 007, 913, 129, 639, 936>>)]

\* C1: a mint_random_amount whose caller is not the configured router returns
\* OnlySupraRouter (the spec's UnauthorizedCaller), with no effect at all before
\* or after the check (no call of the token, no log, no storage write) and the
\* registry as it was, whatever the nonce and the random values.
C1_UnauthorizedCallerRejected ==
  NotByRouter =>
    /\ call.result = "OnlySupraRouter"
    /\ call.trace = <<>>
    /\ mint_address = call.pre

\* A caller other than the router was rejected on a registered nonce with an
\* empty list of random values.
C1_Witness ==
  /\ NotByRouter
  /\ call.nonce \in requested
  /\ mint_address[call.nonce] # ZeroAddress
  /\ call.rng_list = <<>>
  /\ call.result = "OnlySupraRouter"

\* C2: a fulfillment by the router of a registered nonce with a non-empty list
\* issues exactly one mint call, mint(recipient, (rng_list[0] mod 10^21) + 1) on
\* the token with recipient the registry's value for the nonce; when that call
\* succeeds the transaction returns Ok and its only other effect is one
\* Minted(nonce, recipient, amount) log after the call.
C2_FulfillmentMintsOnce ==
  (ByRouter /\ call.nonce \in requested /\ Len(call.rng_list) > 0) =>
    LET recipient == call.pre[call.nonce]
        amount == KnownAmounts[call.rng_list[1]]
    IN  /\ Len(MintCalls) = 1
        /\ Len(call.trace) >= 1
        /\ call.trace[1] = MintCall(ctor.rng_token, recipient, amount, call.trace[1].ok)
        /\ call.trace[1].ok =>
             /\ call.result = "Ok"
             /\ call.trace = <<MintCall(ctor.rng_token, recipient, amount, TRUE),
                               Minted(call.nonce, recipient, amount)>>

\* The router fulfilled a registered nonce, recipient not zero, with a list of
\* two values, and the mint succeeded.
C2_Witness ==
  /\ ByRouter
  /\ call.nonce \in requested
  /\ call.pre[call.nonce] # ZeroAddress
  /\ Len(call.rng_list) = 2
  /\ call.result = "Ok"
  /\ Len(Logs("Minted")) = 1

\* C3: a mint_to whose generateRequest call succeeded with nonce n returns Ok,
\* maps n to the recipient, leaves every other nonce's entry as it was and logs
\* exactly one event, MintRequested(n, recipient).
C3_MintToRegisters ==
  RequestAnswered =>
    LET n == call.trace[1].nonce
    IN  /\ call.result = "Ok"
        /\ n \in Nonces
        /\ mint_address[n] = call.to
        /\ \A m \in Nonces \ {n} : mint_address[m] = call.pre[m]
        /\ Logs("MintRequested") = <<MintRequested(n, call.to)>>
        /\ Logs("Minted") = <<>>

\* A mint_to succeeded while another nonce already had a recipient.
C3_Witness ==
  /\ RequestAnswered
  /\ call.result = "Ok"
  /\ call.to # ZeroAddress
  /\ \E m \in Nonces \ {call.trace[1].nonce} :
       call.pre[m] # ZeroAddress /\ call.pre[m] # call.to

\* C4: a mint_to whose generateRequest call failed returns
\* RandomnessRequestFailed, leaves the registry as it was and has no effect
\* after the failed call: no storage write, no MintRequested log.
C4_FailedRequestRegistersNothing ==
  RequestFailed =>
    /\ call.result = "RandomnessRequestFailed"
    /\ mint_address = call.pre
    /\ Len(call.trace) = 1
    /\ Logs("MintRequested") = <<>>

\* A mint_to for a non-zero recipient failed on the router's call while the
\* registry held an entry.
C4_Witness ==
  /\ RequestFailed
  /\ call.result = "RandomnessRequestFailed"
  /\ call.to # ZeroAddress
  /\ \E m \in Nonces : mint_address[m] # ZeroAddress

\* C5: a fulfillment by the router with an empty list of random values returns
\* the error MalformedFulfillment, calls no mint and logs no Minted.
C5_EmptyListIsMalformedFulfillment ==
  (ByRouter /\ call.rng_list = <<>>) =>
    /\ call.result = "MalformedFulfillment"
    /\ MintCalls = <<>>
    /\ Logs("Minted") = <<>>

\* C6: the value of every mint call is (r mod 10^21) + 1 for r = rng_list[0],
\* lies in 1..10^21, and is computed without wrapping around 2^256; 0 gives 1,
\* 10^21 - 1 gives 10^21 (rows of KnownAmounts).
C6_AmountDerivation ==
  \A i \in 1..Len(call.trace) :
    call.trace[i].kind = "mint" =>
      LET r == call.rng_list[1]
          amount == call.trace[i].value
      IN  /\ amount = KnownAmounts[r]
          /\ geq(amount, U256_from(1))
          /\ geq(TenToThe21, amount)
          /\ ~AmountWraps[r]

\* A mint call was made for the random value 2^256 - 1, and one for 10^21 - 1
\* would carry 10^21.
C6_Witness ==
  /\ Fulfillment
  /\ Len(MintCalls) = 1
  /\ call.rng_list = <<MAX>>
  /\ MintCalls[1].value = KnownAmounts[MAX]
  /\ KnownAmounts[MAX] # KnownAmounts[ZERO]

\* The last transaction is a fulfillment by the router whose mint call failed.
FailedMint ==
  /\ ByRouter
  /\ Len(call.trace) >= 1
  /\ call.trace[1].kind = "mint"
  /\ ~call.trace[1].ok

\* The last transaction is a fulfillment by the router whose mint call
\* succeeded.
SuccessfulMint ==
  /\ ByRouter
  /\ Len(call.trace) >= 1
  /\ call.trace[1].kind = "mint"
  /\ call.trace[1].ok

\* C7: a fulfillment whose mint call fails returns MintFailed, logs no Minted
\* and leaves the registry as it was, the nonce's entry being the recipient of
\* the failed call; a fulfillment of the same nonce by the router that follows
\* it and whose mint call succeeds mints to that same recipient and logs Minted
\* for it.
C7_MintFailureKeepsEntry ==
  /\ [](FailedMint =>
          /\ call.result = "MintFailed"
          /\ Logs("Minted") = <<>>
          /\ mint_address = call.pre
          /\ mint_address[call.nonce] = call.trace[1].account)
  /\ [][(FailedMint /\ SuccessfulMint' /\ call'.nonce = call.nonce) =>
          /\ call'.trace[1].account = call.trace[1].account
          /\ call'.result = "Ok"
          /\ Len(call'.trace) = 2
          /\ call'.trace[2].kind = "Minted"
          /\ call'.trace[2].account = call.trace[1].account
          /\ call'.trace[2].nonce = call.nonce]_vars

\* The mint call of a fulfillment of a registered nonce, recipient not zero,
\* failed.
C7_Witness ==
  /\ FailedMint
  /\ call.result = "MintFailed"
  /\ call.nonce \in requested
  /\ mint_address[call.nonce] # ZeroAddress

\* C8: the three configuration addresses are those given to the constructor, in
\* every reachable state.
C8_ConfigurationFixed ==
  /\ rng_token = ctor.rng_token
  /\ subscription_manager = ctor.subscription_manager
  /\ supra_router = ctor.supra_router

\* Every nonce has been requested and the last transaction is a fulfillment
\* that minted, in a deployment whose router is not its subscription manager.
C8_Witness ==
  /\ requested = Nonces
  /\ SuccessfulMint
  /\ call.result = "Ok"
  /\ ctor.supra_router # ctor.subscription_manager

\* C9: every nonce with a recipient in the registry was returned by a successful
\* generateRequest call of an earlier mint_to; and the registry changes only in
\* a mint_to whose generateRequest call succeeded, at the nonce that call
\* returned, to the argument of that mint_to.
C9_RegistryKeysWereRequested ==
  /\ [](\A n \in Nonces : mint_address[n] # ZeroAddress => n \in requested)
  /\ [][\A n \in Nonces :
          mint_address'[n] # mint_address[n] =>
            /\ RequestAnswered'
            /\ call'.trace[1].nonce = n
            /\ mint_address'[n] = call'.to]_vars

\* One nonce is registered to a recipient and the other is not registered.
C9_Witness ==
  /\ call.op = "mint_to"
  /\ call.result = "Ok"
  /\ \E n \in Nonces : mint_address[n] # ZeroAddress /\ n \in requested
  /\ \E n \in Nonces : mint_address[n] = ZeroAddress /\ n \notin requested

\* C10: a fulfillment calls the token's mint only for a nonce that an earlier
\* successful mint_to obtained (and so logged MintRequested for).
C10_MintOnlyForRequestedNonce ==
  (Fulfillment /\ Len(MintCalls) > 0) => call.nonce \in requested

\* The last transaction is a fulfillment by the router of the nonce whose
\* fulfillment, the transaction before, minted.
SecondFulfillment == ByRouter /\ call.prior # NoAddress

\* C11: a fulfillment by the router of nonce n, with a non-empty list, that
\* follows a fulfillment of n that minted is not refused: it issues one more
\* mint call, to the recipient of the first, of (rng_list[0] mod 10^21) + 1 for
\* its own list, and when that call succeeds it returns Ok and logs one more
\* Minted for that recipient; the entry of n is still that recipient.
C11_SecondFulfillmentMintsAgain ==
  (SecondFulfillment /\ Len(call.rng_list) > 0) =>
    LET amount == KnownAmounts[call.rng_list[1]]
    IN  /\ call.result \in {"Ok", "MintFailed"}
        /\ Len(MintCalls) = 1
        /\ call.trace[1] = MintCall(ctor.rng_token, call.prior, amount, call.trace[1].ok)
        /\ mint_address[call.nonce] = call.prior
        /\ call.trace[1].ok =>
             /\ call.result = "Ok"
             /\ Logs("Minted") = <<Minted(call.nonce, call.prior, amount)>>

\* A registered nonce, recipient not zero, was fulfilled a second time in a
\* row, and the second mint succeeded.
C11_Witness ==
  /\ SecondFulfillment
  /\ call.nonce \in requested
  /\ call.prior # ZeroAddress
  /\ call.result = "Ok"
  /\ Len(Logs("Minted")) = 1
  /\ MintCalls[1].account = call.prior

\* The last transaction is a fulfillment by the router of a nonce whose entry
\* was Address::ZERO, with a non-empty list.
UnregisteredFulfillment ==
  /\ ByRouter
  /\ call.pre[call.nonce] = ZeroAddress
  /\ Len(call.rng_list) > 0

\* C12: a fulfillment by the router of a nonce with no entry, with a non-empty
\* list, does not fail on the missing entry: its first effect is the call
\* mint(Address::ZERO, (rng_list[0] mod 10^21) + 1) on the token, and when that
\* call succeeds it returns Ok and logs Minted(nonce, Address::ZERO, amount).
C12_UnregisteredNonceMintsToZero ==
  UnregisteredFulfillment =>
    LET amount == KnownAmounts[call.rng_list[1]]
    IN  /\ call.result \in {"Ok", "MintFailed"}
        /\ Len(call.trace) >= 1
        /\ call.trace[1] = MintCall(ctor.rng_token, ZeroAddress, amount, call.trace[1].ok)
        /\ ~call.trace[1].ok => call.result = "MintFailed" /\ Len(call.trace) = 1
        /\ call.trace[1].ok =>
             /\ call.result = "Ok"
             /\ call.trace = <<MintCall(ctor.rng_token, ZeroAddress, amount, TRUE),
                               Minted(call.nonce, ZeroAddress, amount)>>

\* A nonce no mint_to obtained was fulfilled and minted to Address::ZERO while
\* another nonce had a recipient.
C12_Witness ==
  /\ UnregisteredFulfillment
  /\ call.nonce \notin requested
  /\ call.result = "Ok"
  /\ Logs("Minted") = <<Minted(call.nonce, ZeroAddress, KnownAmounts[call.rng_list[1]])>>
  /\ \E m \in Nonces : mint_address[m] # ZeroAddress

\* The last transaction is a mint_to whose generateRequest call returned a
\* nonce that already had a recipient.
Collision ==
  /\ RequestAnswered
  /\ call.pre[call.trace[1].nonce] # ZeroAddress

\* C13: a mint_to whose generateRequest call returns a nonce n that an earlier
\* mint_to obtained is not refused and overwrites the entry: it returns Ok and
\* the registry maps n to its own recipient R2; the fulfillment of n by the
\* router that follows it mints to R2, not to the recipient R1 the entry had
\* before; and every mint call of a fulfillment goes to the recipient the
\* registry holds for its nonce.
C13_CollisionOverwrites ==
  /\ [][(RequestAnswered' /\ call'.trace[1].nonce \in requested) =>
          /\ call'.result = "Ok"
          /\ mint_address'[call'.trace[1].nonce] = call'.to]_vars
  /\ [][(Collision /\ ByRouter' /\ call'.nonce = call.trace[1].nonce
           /\ Len(call'.rng_list) > 0) =>
          LET R1 == call.pre[call.trace[1].nonce]
              R2 == call.to
          IN  /\ Len(call'.trace) >= 1
              /\ call'.trace[1].kind = "mint"
              /\ call'.trace[1].account = R2
              /\ \A i \in 1..Len(call'.trace) :
                   (R1 # R2 /\ call'.trace[i].kind \in {"mint", "Minted"}) =>
                     call'.trace[i].account # R1]_vars
  /\ [](Fulfillment =>
          \A i \in 1..Len(call.trace) :
            call.trace[i].kind = "mint" =>
              call.trace[i].account = mint_address[call.nonce])

\* A successful mint_to replaced the recipient of a nonce by a different
\* recipient, neither being Address::ZERO.
C13_Witness ==
  /\ Collision
  /\ call.result = "Ok"
  /\ call.to # ZeroAddress
  /\ call.pre[call.trace[1].nonce] # call.to
  /\ mint_address[call.trace[1].nonce] = call.to

\* C14: every mint_to makes exactly one generateRequest call, its first effect:
\* a call of the router the contract was constructed with, with function
\* signature "mintRandomAmount(uint256,uint256[])", rng count 1, 1 confirmation
\* and the constructor's subscription manager as client address; the registry
\* write and the MintRequested log, when there are any, come after it.
C14_OneRequestFirst ==
  call.op = "mint_to" =>
    /\ Len(Logs("generateRequest")) = 1
    /\ Len(call.trace) >= 1
    /\ call.trace[1].kind = "generateRequest"
    /\ call.trace[1].target = ctor.supra_router
    /\ call.trace[1].function_sig = "mintRandomAmount(uint256,uint256[])"
    /\ call.trace[1].rng_count = 1
    /\ call.trace[1].num_confirmations = FromDecimal(<<1>>)
    /\ call.trace[1].account = ctor.subscription_manager
    /\ \A i \in 1..Len(call.trace) :
         call.trace[i].kind \in {"sstore", "MintRequested"} => i > 1

\* A mint_to requested, then wrote the registry, then logged, in a deployment
\* whose subscription manager is not its router.
C14_Witness ==
  /\ call.op = "mint_to"
  /\ call.result = "Ok"
  /\ Len(call.trace) = 3
  /\ call.trace[1].kind = "generateRequest"
  /\ call.trace[2].kind = "sstore"
  /\ call.trace[3].kind = "MintRequested"
  /\ ctor.subscription_manager # ctor.supra_router

\* C15: a mint_random_amount leaves the registry as it was, for every nonce,
\* whatever its outcome: caller refused, mint failed, or minted.
C15_FulfillmentKeepsRegistry ==
  /\ [][Fulfillment' => \A n \in Nonces : mint_address'[n] = mint_address[n]]_vars
  /\ [](Fulfillment => \A n \in Nonces : mint_address[n] = call.pre[n])

\* A fulfillment minted for a nonce whose recipient is still in the registry.
C15_Witness ==
  /\ SuccessfulMint
  /\ call.result = "Ok"
  /\ call.nonce \in requested
  /\ call.pre[call.nonce] # ZeroAddress
  /\ mint_address[call.nonce] = call.trace[1].account

\* C16: in the effects of every transaction the Minted logs and the successful
\* mint calls pair off in order: a Minted(n, r, a) log occurs only in a
\* mint_random_amount of nonce n, directly after a call mint(r, a) of the token
\* that succeeded, and every successful mint call is directly followed by the
\* Minted log of its recipient and amount, and by no second one.
C16_MintedPairsWithMint ==
  \A i \in 1..Len(call.trace) :
    /\ call.trace[i].kind = "Minted" =>
         /\ Fulfillment
         /\ call.trace[i].nonce = call.nonce
         /\ i > 1
         /\ call.trace[i - 1] =
              MintCall(ctor.rng_token, call.trace[i].account, call.trace[i].value, TRUE)
    /\ (call.trace[i].kind = "mint" /\ call.trace[i].ok) =>
         /\ i < Len(call.trace)
         /\ call.trace[i + 1] =
              Minted(call.nonce, call.trace[i].account, call.trace[i].value)
         /\ i + 2 <= Len(call.trace) => call.trace[i + 2].kind # "Minted"
         /\ Len(Logs("Minted")) = Len(SelectSeq(MintCalls, LAMBDA e : e.ok))

\* A fulfillment minted an amount above 1 to a recipient that is not zero and
\* logged it.
C16_Witness ==
  /\ Fulfillment
  /\ call.result = "Ok"
  /\ Len(call.trace) = 2
  /\ call.trace[1].kind = "mint"
  /\ call.trace[1].account # ZeroAddress
  /\ call.trace[1].value = KnownAmounts[MAX]
  /\ call.trace[2].kind = "Minted"

\* The last transaction is a fulfillment that passed the caller test.
Accepted == Fulfillment /\ call.result # "OnlySupraRouter"

\* C17: the address a mint_to sends its generateRequest call to and the one
\* caller a mint_random_amount accepts are both the stored supra_router, which
\* is the constructor's in every state: a fulfillment is accepted exactly when
\* its caller is that address, and a mint_to and a fulfillment that follow one
\* another request from, and accept, the same address.
C17_OneRouterAddress ==
  /\ [](/\ supra_router = ctor.supra_router
        /\ call.op = "mint_to" =>
             \A i \in 1..Len(call.trace) :
               call.trace[i].kind = "generateRequest" =>
                 call.trace[i].target = supra_router
        /\ Fulfillment => (Accepted <=> call.msg_sender = supra_router))
  /\ [][/\ (call.op = "mint_to" /\ Accepted') =>
             call'.msg_sender = call.trace[1].target
        /\ (Accepted /\ call'.op = "mint_to") =>
             call'.trace[1].target = call.msg_sender]_vars

\* A fulfillment was accepted for a nonce requested from the router, in a
\* deployment whose router is not its subscription manager.
C17_Witness ==
  /\ Accepted
  /\ call.result = "Ok"
  /\ call.nonce \in requested
  /\ call.msg_sender = supra_router
  /\ supra_router # subscription_manager

====
